---- MODULE Spec2Model ----
(***************************************************************************)
(* State-machine model of collect_svgviewer.py: the collector run          *)
(* (collect), the maintenance operations of main (normalize, repair,       *)
(* recollect, sync_local) and the pure helpers they use.                   *)
(*                                                                         *)
(* Text is a sequence of tokens.  The markers "<svg" and "</svg>", the     *)
(* license keywords and the filler characters are atomic tokens; the       *)
(* character length of a text is the sum of its tokens' lengths, so that   *)
(* max(frags, key=len) compares what the code compares.                    *)
(***************************************************************************)
EXTENDS Integers, Sequences, FiniteSets, TLC

\* ------------------------------------------------------------------ bounds
\* candidate ids are 1..MaxId
MaxId == 2
\* largest --max-checks / --limit a run is started with
MaxChecks == 2
\* the wall clock (seconds) runs from 1 to MaxClock
MaxClock == 2
\* command lines run against one store, one after the other
MaxOps == 2
\* tokens of a text handed to the text functions on their own
MaxLen == 5
MaxRepairs == 2

\* ------------------------------------------------------- program constants
\* the only status that lets a response through (status != 200 is skipped)
HTTP_OK == 200
\* width of the random range when --end is not given
DEFAULT_SPAN == 100000

\* ---------------------------------------------------------------- text
\* str.lower() on one token.  A text is a sequence of tokens and positions
\* count tokens.  "I-dot" is U+0130, the capital I with a dot above, whose
\* lower case is two code points ("i" and the combining dot U+0307): lower()
\* of a text that has it is longer than the text.
ToLower(tok) ==
    CASE tok = "<SVG"   -> <<"<svg">>
      [] tok = "</SVG>" -> <<"</svg>">>
      [] tok = "MIT"    -> <<"mit">>
      [] tok = "LGPL"   -> <<"lgpl">>
      [] tok = "I-dot"  -> <<"i", "dot">>
      [] OTHER          -> <<tok>>

RECURSIVE Lower(_)
\* str.lower()
Lower(text) ==
    IF text = <<>> THEN <<>> ELSE ToLower(Head(text)) \o Lower(Tail(text))

\* number of characters of a token
CharLen(tok) ==
    CASE tok \in {"<svg", "<SVG"}     -> 4
      [] tok \in {"</svg>", "</SVG>"} -> 6
      [] tok \in {"mit", "MIT"}       -> 3
      [] tok \in {"lgpl", "LGPL"}     -> 4
      [] OTHER                        -> 1

RECURSIVE TextLen(_)
\* len(text)
TextLen(text) ==
    IF text = <<>> THEN 0 ELSE CharLen(Head(text)) + TextLen(Tail(text))

\* `marker in lower`
Contains(lower, marker) == \E i \in DOMAIN lower : lower[i] = marker

\* lower.find(marker, off): the first position >= off holding marker, 0 when
\* there is none (positions are 1-based here; Python's -1 is 0)
Find(lower, marker, off) ==
    IF \E i \in off..Len(lower) : lower[i] = marker
    THEN CHOOSE i \in off..Len(lower) :
            /\ lower[i] = marker
            /\ \A j \in off..(i - 1) : lower[j] # marker
    ELSE 0

\* text[s:e + len('</svg>')] for positions s..e: a slice past the end of the
\* text stops at the end
Slice(text, s, e) ==
    IF s > Len(text) THEN <<>>
    ELSE SubSeq(text, s, IF e <= Len(text) THEN e ELSE Len(text))

RECURSIVE ScanFrags(_, _, _)
\* the `while True` scan: pair each "<svg" of lower with the nearest "</svg>"
\* after it, and take the slice of text at the positions found in lower
ScanFrags(text, lower, off) ==
    LET s == Find(lower, "<svg", off) IN
    IF s = 0 THEN <<>>
    ELSE LET e == Find(lower, "</svg>", s) IN
         IF e = 0 THEN <<>>
         ELSE <<Slice(text, s, e)>> \o ScanFrags(text, lower, e + 1)

RECURSIVE MaxByLen(_)
\* max(frags, key=len): the first fragment of maximal length
MaxByLen(frags) ==
    IF Len(frags) = 1 THEN frags[1]
    ELSE LET rest == MaxByLen(Tail(frags)) IN
         IF TextLen(Head(frags)) >= TextLen(rest) THEN Head(frags) ELSE rest

\* the fragments of a text, <<>> when a marker is missing altogether
Fragments(text) ==
    LET lower == Lower(text) IN
    IF Contains(lower, "<svg") /\ Contains(lower, "</svg>")
    THEN ScanFrags(text, lower, 1)
    ELSE <<>>

\* collect's working content: the largest fragment, or the raw body
ExtractSvg(text) ==
    IF Fragments(text) # <<>> THEN MaxByLen(Fragments(text)) ELSE text

looks_like_svg(text) == Contains(Lower(text), "<svg")

\* sha256 is modelled as injective: the digest names the text it digests
compute_hash(text) == <<"sha256", text>>

LICENSE_KEYWORDS ==
    << "cc-by", "cc0", "creativecommons", "public domain", "cc-by-sa",
       "cc-by-nc", "mit", "apache", "bsd", "mozilla public", "mpl", "gpl",
       "lgpl" >>

\* `k in tok` for a keyword k and a lower-cased token
KeywordIn(k, tok) == k = tok \/ (k = "gpl" /\ tok = "lgpl")

find_license_keywords(text) ==
    LET t == Lower(text)
        Found(k) == \E i \in DOMAIN t : KeywordIn(k, t[i])
    IN SelectSeq(LICENSE_KEYWORDS, Found)

\* a check that looks at the working content only (to see what rests on the
\* `or` of line 216)
LicensesOf_fragmentonly(svg_text, text) == find_license_keywords(svg_text)

\* find_license_keywords(svg_text) or find_license_keywords(text)
LicensesOf(svg_text, text) ==
    IF find_license_keywords(svg_text) # <<>>
    THEN find_license_keywords(svg_text)
    ELSE find_license_keywords(text)

IsSpace(tok) == tok = " "

RECURSIVE LStrip(_)
LStrip(text) ==
    IF text # <<>> /\ IsSpace(Head(text)) THEN LStrip(Tail(text)) ELSE text

RECURSIVE RStrip(_)
RStrip(text) ==
    IF text # <<>> /\ IsSpace(text[Len(text)])
    THEN RStrip(SubSeq(text, 1, Len(text) - 1))
    ELSE text

\* str.strip()
Strip(text) == RStrip(LStrip(text))


\* ------------------------------------------------------------ file names
\* f'svgviewer-{id}.svg' (ts = 0) and f'svgviewer-{id}-{ts}.svg'; dir is the
\* directory part an index written by an earlier version may carry
Name(id_val, ts) == [dir |-> "", stem |-> "svgviewer", id |-> id_val, ts |-> ts]

\* os.path.basename
Basename(fname) == [fname EXCEPT !.dir = ""]

\* f'https://www.svgviewer.dev/s/{id_val}'
Url(id_val) == <<"https://www.svgviewer.dev/s/", id_val>>

\* a value a field does not have: None, or the key is absent
NoTime == 0
NoId == 0
NoUrl == <<>>
NoHash == <<>>

Exists(fs, path) == path \in DOMAIN fs

\* open(path, 'w') can succeed: the script makes svg/remote/ and no directory
\* below it, so a name that carries a directory cannot be opened for writing
Writable(path) == path.dir = ""

\* open(path, 'w').write(text)
WriteFile(fs, path, text) ==
    [p \in DOMAIN fs \cup {path} |-> IF p = path THEN text ELSE fs[p]]

\* the name save_svg returns for the content
SaveSvgName(id_val, text, fs, now) ==
    IF Exists(fs, Name(id_val, 0))
    THEN IF fs[Name(id_val, 0)] = text THEN Name(id_val, 0) ELSE Name(id_val, now)
    ELSE Name(id_val, 0)

\* whether save_svg writes at all (identical content under the name: no)
SaveSvgWrites(id_val, text, fs) ==
    ~(Exists(fs, Name(id_val, 0)) /\ fs[Name(id_val, 0)] = text)

\* the asset directory after save_svg
save_svg(id_val, text, fs, now) ==
    IF SaveSvgWrites(id_val, text, fs)
    THEN WriteFile(fs, SaveSvgName(id_val, text, fs, now), text)
    ELSE fs

\* ------------------------------------------------------------ documents
DocLicensed  == <<"<svg", "mit", "</svg>">>
DocWrapper   == <<"x", "<svg", "mit", "</svg>">>
DocUnlicensed == <<"<SVG", "x", "</svg>">>
DocNotSvg    == <<"x">>
DocNoClose   == <<"<svg", "LGPL">>
\* a page with a keyword outside its two fragments, the second the longer
DocFallback  == <<"mit", "<svg", "</svg>", "<svg", "x", "</svg>">>

Docs ==
    {DocLicensed, DocWrapper, DocUnlicensed, DocNotSvg, DocNoClose, DocFallback}

NOT_FOUND == 404

\* what a GET can answer: a 200 with a body, or a non-success status
Responses ==
    [status : {HTTP_OK}, text : Docs] \cup {[status |-> NOT_FOUND, text |-> <<>>]}

Unknown == [status |-> 0, text |-> <<>>]

\* every text the model meets: the bodies served and what is extracted from them
Texts == Docs \cup {ExtractSvg(d) : d \in Docs} \cup {<<>>}

\* the text functions, tabulated once over Texts
SvgTextOf == [t \in Texts |-> ExtractSvg(t)]
LooksLikeSvg == [t \in Texts |-> looks_like_svg(t)]
LicensesFor == [t \in Texts |-> LicensesOf(ExtractSvg(t), t)]

Ids == 1..MaxId


\* ----------------------------------------------------------------- state
VARIABLES
    index,        \* svg/remote/index.json: the sequence under 'items'
    files,        \* svg/remote/: path -> content of the asset files
    localIndex,   \* svg/index.json: the sequence under 'items'
    remote,       \* what the site serves for an id, once it has been asked
    clock,        \* datetime.utcnow(), in seconds
    pc,           \* "idle", or "collect" while collect's loop runs
    args,         \* the command line of the run
    idx,          \* collect: the index in memory
    local_idx,    \* collect: the curated index in memory
    known_hashes, \* collect
    known_ids,    \* collect
    collected,    \* collect
    checked,      \* collect
    id_cursor,    \* collect
    ev,           \* history: the step just taken, the id it was about and the
                  \*          digest of the working content it got that far with
    iterations,   \* history: loop iterations of the run
    ops,          \* history: command lines run so far
    everKnown,    \* history: ids that were in known_ids in this or an earlier run
    clean,        \* history: no fetch of the run raised so far
    base,         \* history: the run that ended last, see FinishRun
    rerun,        \* history: how the run repeats the one before it, see StartCollect
    given,        \* a text handed to the text functions on their own
    scanned       \* what they made of it

store == <<index, files, localIndex>>
runvars == <<idx, local_idx, known_hashes, known_ids, collected, checked, id_cursor>>
vars == <<index, files, localIndex, remote, clock, pc, args, idx, local_idx,
          known_hashes, known_ids, collected, checked, id_cursor, ev,
          iterations, ops, everKnown, clean, base, rerun, given, scanned>>

\* the text functions are not under test while the script runs
textvars == <<given, scanned>>

\* scanned before the text functions have run
\* stored: the content of the asset file, once there is one; from: what
\* wrote it; repairs: the --repair runs since; rewrote: whether the last of
\* them rewrote the file
NotScanned ==
    [ran |-> FALSE, frags |-> <<>>, best |-> <<>>, svg_text |-> <<>>,
     stored |-> <<>>, from |-> "", repairs |-> 0, rewrote |-> FALSE]

\* base when no run has ended that a later run could repeat
NoBase == [args |-> <<>>, quota |-> FALSE]

NoArgs ==
    [start |-> 0, limit |-> 0, max_checks |-> 0, random_mode |-> FALSE,
     end |-> 0, no_local_sync |-> FALSE]

\* the command lines a run is started with.  end = 0 is "--end not given";
\* a sequential run stays within the ids the model has
ArgSet ==
    { a \in [start : Ids, limit : 1..MaxChecks, max_checks : 1..MaxChecks,
             random_mode : BOOLEAN, end : {0, MaxId}, no_local_sync : BOOLEAN] :
        /\ a.limit <= a.max_checks
        /\ ~a.random_mode => (a.end = 0 /\ a.start + a.max_checks - 1 <= MaxId)
        /\ a.random_mode => (a.start = 1 /\ a.end = MaxId) }

\* owed: a GET of this run has not been followed by time.sleep(sleep) yet;
\* got: the ids this run has issued a GET for
Event(op, id_val) ==
    [op |-> op, id |-> id_val, h |-> NoHash, owed |-> FALSE, got |-> {}]

\* a step of collect that computed h = compute_hash(svg_text)
HashedEvent(op, id_val, h) == [Event(op, id_val) EXCEPT !.h = h]

\* res = http_get(url)
Get(e) == [e EXCEPT !.owed = TRUE, !.got = ev.got \cup {e.id}]

\* an iteration that goes round without its time.sleep (to see what rests on
\* the sleep before each continue)
Sleep_skipped(e) == e

\* time.sleep(sleep)
Sleep(e) == [e EXCEPT !.owed = FALSE]

\* an iteration that issues no GET leaves what is owed as it was
NoGet(e) == [e EXCEPT !.owed = ev.owed, !.got = ev.got]

\* the steps of collect that issue a GET
FetchOps ==
    {"fetch_error", "rej_status", "rej_notsvg", "rej_dup", "rej_nolicense",
     "accept", "abort_save_svg", "abort_save_index"}

\* an index entry as collect writes it (no repaired_at, no _origin)
Entry(id_val, fname, h, licenses, now) ==
    [id |-> id_val, url |-> Url(id_val), filename |-> fname, hash |-> h,
     licenses |-> licenses, collected_at |-> now, repaired_at |-> NoTime,
     origin |-> ""]

\* the curated-index entry collect appends
LocalEntry(entry) == [entry EXCEPT !.origin = "remote"]

\* an index left by an earlier version of the script: the filename carries a
\* directory and the file holds the whole HTML wrapper
LegacyEntry ==
    [id |-> 1, url |-> Url(1),
     filename |-> [dir |-> "svg/remote/", stem |-> "svgviewer", id |-> 1, ts |-> 0],
     hash |-> compute_hash(DocWrapper), licenses |-> <<"mit">>,
     collected_at |-> 1, repaired_at |-> NoTime, origin |-> ""]

EmptyFiles == [p \in {} |-> <<>>]

\* the same entry after --normalize and --repair have been run on it
RepairedEntry ==
    [LegacyEntry EXCEPT !.filename = Name(1, 0),
                        !.hash = compute_hash(ExtractSvg(DocWrapper)),
                        !.repaired_at = 1]

\* the stores a command line can find: none yet, the legacy one, and the
\* legacy one normalized and repaired
Stores ==
    { [index |-> <<>>, files |-> EmptyFiles],
      [index |-> <<LegacyEntry>>,
       files |-> WriteFile(EmptyFiles, Name(1, 0), DocWrapper)],
      [index |-> <<RepairedEntry>>,
       files |-> WriteFile(EmptyFiles, Name(1, 0), ExtractSvg(DocWrapper))] }

IdleRun ==
    /\ idx = <<>>
    /\ local_idx = <<>>
    /\ known_hashes = {}
    /\ known_ids = {}
    /\ collected = 0
    /\ checked = 0
    /\ id_cursor = 0
    /\ iterations = 0
    /\ args = NoArgs
    /\ clean = FALSE
    /\ rerun = "no"

\* nothing has run yet
Fresh ==
    /\ localIndex = <<>>
    /\ remote = [i \in Ids |-> Unknown]
    /\ clock = 1
    /\ pc = "idle"
    /\ IdleRun
    /\ ev = Event("init", 0)
    /\ ops = 0
    /\ everKnown = {}
    /\ base = NoBase

Init ==
    /\ \E s \in Stores : index = s.index /\ files = s.files
    /\ Fresh
    /\ given = <<>>
    /\ scanned = NotScanned

\* ------------------------------------------------------------- load/save
\* a load_index that reads no items whatever the file holds (to see what
\* rests on every command starting from the persisted items)
load_index_empty == <<>>

\* load_index (an absent index file reads as no items)
load_index == index

\* a collect that starts with no known hash (to see what rests on line 129)
KnownHashesOf_none(items) == {}

\* known_hashes = {item.get('hash') for item in idx}
KnownHashesOf(items) == {items[i].hash : i \in DOMAIN items}

\* a collect that starts with no known id (to see what rests on line 130)
KnownIdsOf_none(items) == {}

\* known_ids = {item.get('id') for item in idx}
KnownIdsOf(items) == {items[i].id : i \in DOMAIN items}

\* an accept that does not remember the hash (to see what rests on line 236)
Remember_not(hashes, h) == hashes

\* known_hashes.add(h)
Remember(hashes, h) == hashes \cup {h}

\* --------------------------------------------------------------- collect
\* collect(...) up to the loop: load the indexes, build the known sets
StartCollect(a, fixed) ==
    /\ UNCHANGED textvars
    /\ pc = "idle"
    /\ ops < MaxOps
    /\ a \in ArgSet
    /\ pc' = "collect"
    /\ args' = a
    /\ idx' = load_index
    /\ known_hashes' = KnownHashesOf(load_index)
    /\ known_ids' = KnownIdsOf(load_index)
    /\ local_idx' = localIndex
    /\ collected' = 0
    /\ checked' = 0
    /\ id_cursor' = a.start
    /\ iterations' = 0
    /\ ev' = Event("start", 0)
    /\ everKnown' = IF fixed THEN everKnown \cup KnownIdsOf(load_index) ELSE everKnown
    /\ clean' = fixed
    /\ rerun' = IF a # base.args THEN "no"
                 ELSE IF base.quota THEN "quota" ELSE "same"
    /\ base' = NoBase
    /\ ops' = ops + 1
    /\ UNCHANGED <<store, remote, clock>>

\* while collected < limit and checked < max_checks
LoopCond == collected < args.limit /\ checked < args.max_checks

Min(a, b) == IF a <= b THEN a ELSE b

\* the values next_id() can return
NextIds ==
    IF args.random_mode
    THEN LET low == args.start
             high == IF args.end # 0 THEN args.end ELSE low + DEFAULT_SPAN
         IN low..Min(high, MaxId)
    ELSE {id_cursor}

\* a sequencer whose cursor stands still (to see what rests on line 153)
Advance_stuck == id_cursor' = id_cursor

\* next_id()'s effect on the cursor
Advance == id_cursor' = IF args.random_mode THEN id_cursor ELSE id_cursor + 1

InLoop(id_val) == pc = "collect" /\ LoopCond /\ id_val \in NextIds

\* the answers the site can give for the id
Served(id_val) == IF remote[id_val] = Unknown THEN Responses ELSE {remote[id_val]}

\* with a fixed remote an answer, once given, is the answer from then on
Serve(id_val, r, fixed) ==
    remote' = IF fixed THEN [remote EXCEPT ![id_val] = r] ELSE remote

\* a skip that goes round without counting the check (to see what rests on
\* line 159)
SkipKnown_uncounted(id_val) ==
    /\ UNCHANGED textvars
    /\ InLoop(id_val)
    /\ id_val \in known_ids
    /\ Advance
    /\ iterations' = iterations + 1
    /\ ev' = NoGet(Event("skip", id_val))
    /\ UNCHANGED <<store, remote, clock, pc, args, idx, local_idx, known_hashes,
                   known_ids, collected, checked, ops, everKnown, clean, base,
                   rerun>>

\* if id_val in known_ids: checked += 1; continue
SkipKnown(id_val) ==
    /\ UNCHANGED textvars
    /\ InLoop(id_val)
    /\ id_val \in known_ids
    /\ Advance
    /\ checked' = checked + 1
    /\ iterations' = iterations + 1
    /\ ev' = NoGet(Event("skip", id_val))
    /\ UNCHANGED <<store, remote, clock, pc, args, idx, local_idx, known_hashes,
                   known_ids, collected, ops, everKnown, clean, base, rerun>>

\* a rejection that counts the id as collected as well (to see what rests on
\* collected changing at line 238 only)
Rejected_collected ==
    /\ UNCHANGED textvars
    /\ Advance
    /\ checked' = checked + 1
    /\ collected' = collected + 1
    /\ iterations' = iterations + 1
    /\ UNCHANGED <<store, clock, pc, args, idx, local_idx, known_hashes,
                   ops, base, rerun>>

\* what every rejection after a GET shares
Rejected ==
    /\ UNCHANGED textvars
    /\ Advance
    /\ checked' = checked + 1
    /\ iterations' = iterations + 1
    /\ UNCHANGED <<store, clock, pc, args, idx, local_idx, known_hashes,
                   collected, ops, base, rerun>>

\* except Exception: checked += 1; sleep; continue
FetchError(id_val) ==
    /\ InLoop(id_val)
    /\ id_val \notin known_ids
    /\ Rejected
    /\ ev' = Sleep(Get(Event("fetch_error", id_val)))
    /\ clean' = FALSE
    /\ UNCHANGED <<remote, known_ids, everKnown>>

\* if status != 200
RejectStatus(id_val, fixed) ==
    /\ InLoop(id_val)
    /\ id_val \notin known_ids
    /\ \E r \in Served(id_val) :
        /\ r.status # HTTP_OK
        /\ Serve(id_val, r, fixed)
    /\ Rejected
    /\ ev' = Sleep(Get(Event("rej_status", id_val)))
    /\ UNCHANGED <<known_ids, everKnown, clean>>

\* if not looks_like_svg(text)
RejectNotSvg(id_val, fixed) ==
    /\ InLoop(id_val)
    /\ id_val \notin known_ids
    /\ \E r \in Served(id_val) :
        /\ r.status = HTTP_OK
        /\ ~LooksLikeSvg[r.text]
        /\ Serve(id_val, r, fixed)
    /\ Rejected
    /\ ev' = Sleep(Get(Event("rej_notsvg", id_val)))
    /\ UNCHANGED <<known_ids, everKnown, clean>>

\* a loop without the known-id test (to see what rests on line 158)
Candidate_unfiltered(id_val, r) ==
    /\ InLoop(id_val)
    /\ r \in Served(id_val)
    /\ r.status = HTTP_OK
    /\ LooksLikeSvg[r.text]

\* a response that passed the status and the <svg gate
Candidate(id_val, r) ==
    /\ InLoop(id_val)
    /\ id_val \notin known_ids
    /\ r \in Served(id_val)
    /\ r.status = HTTP_OK
    /\ LooksLikeSvg[r.text]

\* if h in known_hashes: known_ids.add(id_val)
RejectDuplicate(id_val, fixed) ==
    /\ \E r \in Responses :
        /\ Candidate(id_val, r)
        /\ compute_hash(SvgTextOf[r.text]) \in known_hashes
        /\ Serve(id_val, r, fixed)
        /\ ev' = Sleep(Get(HashedEvent("rej_dup", id_val,
                                         compute_hash(SvgTextOf[r.text]))))
    /\ Rejected
    /\ known_ids' = known_ids \cup {id_val}
    /\ everKnown' = IF fixed THEN everKnown \cup {id_val} ELSE everKnown
    /\ UNCHANGED clean

\* if not licenses: known_ids.add(id_val)
RejectNoLicense(id_val, fixed) ==
    /\ \E r \in Responses :
        /\ Candidate(id_val, r)
        /\ compute_hash(SvgTextOf[r.text]) \notin known_hashes
        /\ LicensesFor[r.text] = <<>>
        /\ Serve(id_val, r, fixed)
        /\ ev' = Sleep(Get(HashedEvent("rej_nolicense", id_val,
                                         compute_hash(SvgTextOf[r.text]))))
    /\ Rejected
    /\ known_ids' = known_ids \cup {id_val}
    /\ everKnown' = IF fixed THEN everKnown \cup {id_val} ELSE everKnown
    /\ UNCHANGED clean

\* a gate without the license check (to see what rests on lines 216-222)
Passed_unlicensed(id_val, r) ==
    /\ Candidate(id_val, r)
    /\ compute_hash(SvgTextOf[r.text]) \notin known_hashes

\* a response that passed every filter
Passed(id_val, r) ==
    /\ Candidate(id_val, r)
    /\ compute_hash(SvgTextOf[r.text]) \notin known_hashes
    /\ LicensesFor[r.text] # <<>>


\* json.dump(idx) into svg/remote/index.json: the file holds what it is given
save_index(items) == items

\* json.dump(idx) into svg/index.json
save_local_index(items) == items

\* the process ends: nothing of the run is left
EndRun ==
    /\ UNCHANGED textvars
    /\ pc' = "idle"
    /\ args' = NoArgs
    /\ idx' = <<>>
    /\ local_idx' = <<>>
    /\ known_hashes' = {}
    /\ known_ids' = {}
    /\ collected' = 0
    /\ checked' = 0
    /\ id_cursor' = 0
    /\ iterations' = 0
    /\ clean' = FALSE
    /\ rerun' = "no"

\* the filenames of the curated index in memory
LocalFilenames(items) == {items[i].filename : i \in DOMAIN items}

\* lines 224-260: save the asset, append the entry, write the index, append
\* to the curated index.  args.no_local_sync is not read anywhere.  (A failed
\* write of the curated index is reported and swallowed by save_local_index;
\* the model takes that write to succeed.)
Accept(id_val, fixed) ==
    \E r \in Responses :
        /\ Passed(id_val, r)
        /\ Serve(id_val, r, fixed)
        /\ LET svg_text == SvgTextOf[r.text]
               h == compute_hash(svg_text)
               fname == SaveSvgName(id_val, svg_text, files, clock)
               entry == Entry(id_val, fname, h, LicensesFor[r.text], clock)
           IN /\ files' = save_svg(id_val, svg_text, files, clock)
              /\ idx' = Append(idx, entry)
              /\ index' = save_index(Append(idx, entry))
              /\ known_hashes' = Remember(known_hashes, h)
              /\ known_ids' = known_ids \cup {id_val}
              /\ everKnown' = IF fixed THEN everKnown \cup {id_val} ELSE everKnown
              /\ collected' = collected + 1
              /\ IF fname \notin LocalFilenames(local_idx)
                 THEN /\ local_idx' = Append(local_idx, LocalEntry(entry))
                      /\ localIndex' = save_local_index(Append(local_idx, LocalEntry(entry)))
                 ELSE UNCHANGED <<local_idx, localIndex>>
        /\ Advance
        /\ checked' = checked + 1
        /\ iterations' = iterations + 1
        /\ ev' = Sleep(Get(HashedEvent("accept", id_val,
                                         compute_hash(SvgTextOf[r.text]))))
        /\ UNCHANGED <<clock, pc, args, ops, clean, base, rerun, textvars>>

\* save_svg's open(path, 'w') raises: nothing catches it, the run ends
AbortSaveSvg(id_val, fixed) ==
    /\ \E r \in Responses :
        /\ Passed(id_val, r)
        /\ SaveSvgWrites(id_val, SvgTextOf[r.text], files)
        /\ Serve(id_val, r, fixed)
        /\ ev' = Get(HashedEvent("abort_save_svg", id_val,
                                   compute_hash(SvgTextOf[r.text])))
    /\ EndRun
    /\ base' = NoBase
    /\ UNCHANGED <<store, clock, ops, everKnown>>

\* save_index's open(INDEX_FILE, 'w') raises after the asset was saved
AbortSaveIndex(id_val, fixed) ==
    /\ \E r \in Responses :
        /\ Passed(id_val, r)
        /\ Serve(id_val, r, fixed)
        /\ files' = save_svg(id_val, SvgTextOf[r.text], files, clock)
        /\ ev' = Get(HashedEvent("abort_save_index", id_val,
                                   compute_hash(SvgTextOf[r.text])))
    /\ EndRun
    /\ base' = NoBase
    /\ UNCHANGED <<index, localIndex, clock, ops, everKnown>>

\* the loop condition fails: print('Done. ...') and return.  With a fixed
\* remote, base remembers the arguments of a run that no fetch error touched,
\* and whether it was a sequential run that ended on the checked quota.
FinishRun(fixed) ==
    /\ pc = "collect"
    /\ ~LoopCond
    /\ EndRun
    /\ ev' = Event("done", 0)
    /\ base' = IF fixed /\ clean
               THEN [args |-> args,
                     quota |-> ~args.random_mode /\ checked >= args.max_checks]
               ELSE NoBase
    /\ UNCHANGED <<store, remote, clock, ops, everKnown>>

\* ------------------------------------------------------------ environment
\* a second passes between two command lines
Tick ==
    /\ UNCHANGED textvars
    /\ pc = "idle"
    /\ clock < MaxClock
    /\ clock' = clock + 1
    /\ UNCHANGED <<store, remote, pc, args, runvars, ev, iterations, ops,
                   everKnown, clean, base, rerun>>

\* somebody deletes an asset file between two invocations
RemoveAsset(path) ==
    /\ UNCHANGED textvars
    /\ pc = "idle"
    /\ Exists(files, path)
    /\ files' = [p \in DOMAIN files \ {path} |-> files[p]]
    /\ ev' = Event("remove_asset", 0)
    /\ UNCHANGED <<index, localIndex, remote, clock, pc, args, runvars,
                   iterations, ops, everKnown, clean, base, rerun>>


\* --------------------------------------------------------------- normalize
RECURSIVE NormalizeItems_aswritten(_, _)
\* a normalize that looks for the file under the name as the item has it (to
\* see what rests on line 287, os.path.basename)
NormalizeItems_aswritten(items, fs) ==
    IF items = <<>> THEN <<>>
    ELSE LET item == Head(items)
         IN IF Exists(fs, item.filename)
            THEN <<item>> \o NormalizeItems_aswritten(Tail(items), fs)
            ELSE NormalizeItems_aswritten(Tail(items), fs)

RECURSIVE NormalizeItems(_, _)
\* lines 284-297: keep the items whose base-named file exists, base-named
NormalizeItems(items, fs) ==
    IF items = <<>> THEN <<>>
    ELSE LET item == Head(items)
             bname == Basename(item.filename)
         IN IF Exists(fs, bname)
            THEN <<[item EXCEPT !.filename = bname]>> \o NormalizeItems(Tail(items), fs)
            ELSE NormalizeItems(Tail(items), fs)

\* the `changed` flag of normalize
NormalizeChanged(items, fs) ==
    \E i \in DOMAIN items :
        \/ ~Exists(fs, Basename(items[i].filename))
        \/ items[i].filename # Basename(items[i].filename)

\* the .svg files of svg/ itself (os.listdir(LOCAL_DIR)): one curated asset
CuratedFiles == {[dir |-> "", stem |-> "curated", id |-> 0, ts |-> 0]}

\* lines 310-317: a minimal entry for a curated file
CuratedEntry(fname) ==
    [id |-> NoId, url |-> NoUrl, filename |-> fname, hash |-> NoHash,
     licenses |-> <<>>, collected_at |-> NoTime, repaired_at |-> NoTime,
     origin |-> ""]

CuratedItems == LET f == CHOOSE f \in CuratedFiles : TRUE IN <<CuratedEntry(f)>>

\* a command line (one of the maintenance flags) is run
Invoke ==
    /\ UNCHANGED textvars
    /\ pc = "idle"
    /\ ops < MaxOps
    /\ ops' = ops + 1
    /\ UNCHANGED <<remote, clock, pc, args, runvars, iterations, everKnown,
                   clean, base, rerun>>

\* --normalize, lines 280-323
Normalize ==
    /\ Invoke
    /\ index' = IF NormalizeChanged(load_index, files)
                THEN save_index(NormalizeItems(load_index, files))
                ELSE index
    /\ localIndex' = save_local_index(CuratedItems)
    /\ ev' = Event("normalize", Len(index) - Len(NormalizeItems(load_index, files)))
    /\ UNCHANGED files

\* --normalize when save_index raises: the process ends before the curated
\* index is rebuilt
NormalizeCrash ==
    /\ Invoke
    /\ NormalizeChanged(load_index, files)
    /\ ev' = Event("normalize_crash", 0)
    /\ UNCHANGED store

\* ------------------------------------------------------------------ repair
\* lines 339-357: whether repair rewrites the file, and with what
RepairNeeded(content) ==
    /\ Fragments(content) # <<>>
    /\ Strip(MaxByLen(Fragments(content))) # Strip(content)

RepairNeededOf == [t \in Texts |-> RepairNeeded(t)]
\* the content of the file after repair has been at it
RepairText(content) ==
    IF RepairNeeded(content) THEN MaxByLen(Fragments(content)) ELSE content

RepairTextOf == [t \in Texts |-> RepairText(t)]

\* a repair that leaves the hash of the item as it was (to see what rests
\* on line 361)
Repaired_samehash(item, svg_text, now) == [item EXCEPT !.repaired_at = now]

\* lines 361-362: item['hash'] = ..., item['repaired_at'] = ...
Repaired(item, svg_text, now) ==
    [item EXCEPT !.hash = compute_hash(svg_text), !.repaired_at = now]

RECURSIVE RepairLoop(_, _, _, _)
\* lines 327-366, from item i on: the items, the files and the changed flag
\* after the loop.  wfail: the items whose file cannot be written (reported,
\* the loop goes on).
RepairLoop(items, fs, wfail, i) ==
    IF i > Len(items) THEN [items |-> items, files |-> fs, changed |-> FALSE]
    ELSE LET fpath == items[i].filename IN
         IF Exists(fs, fpath) /\ RepairNeededOf[fs[fpath]] /\ i \notin wfail
         THEN LET svg_text == RepairTextOf[fs[fpath]]
                  item == Repaired(items[i], svg_text, clock)
                  rest == RepairLoop([items EXCEPT ![i] = item],
                                     WriteFile(fs, fpath, svg_text), wfail, i + 1)
              IN [rest EXCEPT !.changed = TRUE]
         ELSE RepairLoop(items, fs, wfail, i + 1)

\* --repair, lines 324-372
Repair(wfail) ==
    /\ Invoke
    /\ LET r == RepairLoop(load_index, files, wfail, 1)
       IN /\ files' = r.files
          /\ index' = IF r.changed THEN save_index(r.items) ELSE index
          /\ ev' = Event(IF r.changed THEN "repair" ELSE "repair_nothing", 0)
    /\ UNCHANGED localIndex

\* --repair when the final save_index raises: the files are rewritten, the
\* index is not
RepairCrash(wfail) ==
    /\ Invoke
    /\ LET r == RepairLoop(load_index, files, wfail, 1)
       IN /\ r.changed
          /\ files' = r.files
    /\ ev' = Event("repair_crash", 0)
    /\ UNCHANGED <<index, localIndex>>


\* --------------------------------------------------------------- recollect
\* the first item with the id, 0 when the index has none
FindItem(items, target) ==
    IF \E i \in DOMAIN items : items[i].id = target
    THEN CHOOSE i \in DOMAIN items :
            /\ items[i].id = target
            /\ \A j \in 1..(i - 1) : items[j].id # target
    ELSE 0

\* what http_get(url) can answer: the site's answer for the id in the url
ServedAt(url) == IF url = NoUrl THEN {} ELSE Served(url[2])

\* lines 393-414: the fragment recollect saves, <<>> when it finds none
RecollectFragment(text) ==
    IF Fragments(text) # <<>> THEN MaxByLen(Fragments(text)) ELSE <<>>

RecollectFragmentOf == [t \in Texts |-> RecollectFragment(t)]

\* lines 415-424: the name recollect writes under
RecollectName(fname, target, svg_text, fs, now) ==
    IF Exists(fs, fname) /\ fs[fname] # svg_text THEN Name(target, now) ELSE fname

\* --recollect-id with no such item: 'No index entry for id'
RecollectMissing(target) ==
    /\ Invoke
    /\ FindItem(load_index, target) = 0
    /\ ev' = Event("recollect_missing", target)
    /\ UNCHANGED store

\* --recollect-id: http_get raises
RecollectError(target) ==
    /\ Invoke
    /\ FindItem(load_index, target) # 0
    /\ ev' = Event("recollect_error", target)
    /\ UNCHANGED store

\* --recollect-id: status != 200
RecollectStatus(target) ==
    /\ Invoke
    /\ FindItem(load_index, target) # 0
    /\ \E r \in ServedAt(load_index[FindItem(load_index, target)].url) :
        r.status # HTTP_OK
    /\ ev' = Event("recollect_status", target)
    /\ UNCHANGED store

\* --recollect-id: a 200 without a fragment
RecollectNoFragment(target) ==
    /\ Invoke
    /\ FindItem(load_index, target) # 0
    /\ \E r \in ServedAt(load_index[FindItem(load_index, target)].url) :
        /\ r.status = HTTP_OK
        /\ RecollectFragmentOf[r.text] = <<>>
    /\ ev' = Event("recollect_nofrag", target)
    /\ UNCHANGED store

\* a recollect that takes the item out and puts the new one at the end (to
\* see what rests on the item being updated in place)
UpdateItem_moved(items, i, item) ==
    Append(SubSeq(items, 1, i - 1) \o SubSeq(items, i + 1, Len(items)), item)

\* lines 427-429: item is the dict inside idx, updated in place
UpdateItem(items, i, item) == [items EXCEPT ![i] = item]

\* a 200 with a fragment for the item at position i
Refetched(target, i, r) ==
    /\ i = FindItem(load_index, target)
    /\ i # 0
    /\ r \in ServedAt(load_index[i].url)
    /\ r.status = HTTP_OK
    /\ RecollectFragmentOf[r.text] # <<>>

\* --recollect-id, lines 415-432: write the fragment, update the item, save
Recollect(target) ==
    /\ Invoke
    /\ \E i \in DOMAIN index, r \in Responses :
        /\ Refetched(target, i, r)
        /\ LET svg_text == RecollectFragmentOf[r.text]
               fname == RecollectName(index[i].filename, target, svg_text, files, clock)
               item == [index[i] EXCEPT !.filename = fname,
                                        !.hash = compute_hash(svg_text),
                                        !.repaired_at = clock]
           IN /\ Writable(fname)
              /\ files' = WriteFile(files, fname, svg_text)
              /\ index' = save_index(UpdateItem(load_index, i, item))
    /\ ev' = Event("recollect", target)
    /\ UNCHANGED localIndex

\* --recollect-id when open(path, 'w') raises
RecollectCrashWrite(target) ==
    /\ Invoke
    /\ \E i \in DOMAIN index, r \in Responses : Refetched(target, i, r)
    /\ ev' = Event("recollect_crash_write", target)
    /\ UNCHANGED store

\* --recollect-id when save_index raises after the file was written
RecollectCrashIndex(target) ==
    /\ Invoke
    /\ \E i \in DOMAIN index, r \in Responses :
        /\ Refetched(target, i, r)
        /\ LET svg_text == RecollectFragmentOf[r.text]
               fname == RecollectName(index[i].filename, target, svg_text, files, clock)
           IN /\ Writable(fname)
              /\ files' = WriteFile(files, fname, svg_text)
    /\ ev' = Event("recollect_crash_index", target)
    /\ UNCHANGED <<index, localIndex>>

\* -------------------------------------------------------------- sync_local
\* lines 446-453: the copy of an item the curated index gets
SyncEntry(item) ==
    [id |-> item.id, url |-> item.url, filename |-> Basename(item.filename),
     hash |-> item.hash, licenses |-> item.licenses,
     collected_at |-> item.collected_at, repaired_at |-> NoTime, origin |-> ""]

RECURSIVE SyncItems(_, _)
\* lines 440-453: the items whose base-named file exists, copied
SyncItems(items, fs) ==
    IF items = <<>> THEN <<>>
    ELSE IF Exists(fs, Basename(Head(items).filename))
         THEN <<SyncEntry(Head(items))>> \o SyncItems(Tail(items), fs)
         ELSE SyncItems(Tail(items), fs)

\* --sync-local, lines 437-457
SyncLocal ==
    /\ Invoke
    /\ localIndex' = save_local_index(SyncItems(load_index, files))
    /\ ev' = Event("sync_local", 0)
    /\ UNCHANGED <<index, files>>

\* ------------------------------------------------------------------ system
\* one run of collect, against a site that is free to change (fixed = FALSE)
\* or that serves every id the same answer each time (fixed = TRUE)
CollectStep(fixed) ==
    \/ \E a \in ArgSet : StartCollect(a, fixed)
    \/ \E i \in Ids : SkipKnown(i)
    \/ \E i \in Ids : FetchError(i)
    \/ \E i \in Ids : RejectStatus(i, fixed)
    \/ \E i \in Ids : RejectNotSvg(i, fixed)
    \/ \E i \in Ids : RejectDuplicate(i, fixed)
    \/ \E i \in Ids : RejectNoLicense(i, fixed)
    \/ \E i \in Ids : Accept(i, fixed)
    \/ \E i \in Ids : AbortSaveSvg(i, fixed)
    \/ \E i \in Ids : AbortSaveIndex(i, fixed)
    \/ FinishRun(fixed)
    \/ Tick

Maintenance ==
    \/ Normalize
    \/ NormalizeCrash
    \/ \E wfail \in SUBSET DOMAIN index : Repair(wfail)
    \/ \E wfail \in SUBSET DOMAIN index : RepairCrash(wfail)
    \/ \E t \in Ids : RecollectMissing(t)
    \/ \E t \in Ids : RecollectError(t)
    \/ \E t \in Ids : RecollectStatus(t)
    \/ \E t \in Ids : RecollectNoFragment(t)
    \/ \E t \in Ids : Recollect(t)
    \/ \E t \in Ids : RecollectCrashWrite(t)
    \/ \E t \in Ids : RecollectCrashIndex(t)
    \/ SyncLocal
    \/ \E p \in DOMAIN files : RemoveAsset(p)

\* every command line, against a site free to change
Next == CollectStep(FALSE) \/ Maintenance

Spec == Init /\ [][Next]_vars

\* collection runs only, against a fixed site
NextFixed == CollectStep(TRUE)

SpecFixed == Init /\ [][NextFixed]_vars

\* collection runs only, from the empty store, against a site free to change
InitEmpty ==
    /\ index = <<>>
    /\ files = EmptyFiles
    /\ Fresh
    /\ given = <<>>
    /\ scanned = NotScanned

NextEmpty == CollectStep(FALSE)

SpecEmpty == InitEmpty /\ [][NextEmpty]_vars

\* a started run is a running process: its blocking calls (http_get with its
\* timeout, time.sleep, the file writes) return or raise, so the loop is not
\* left standing
RunStep == pc = "collect" /\ Next

SpecLive == Spec /\ WF_vars(RunStep)

\* ------------------------------------------------- the text functions alone
\* what a text is made of: the markers in two casings, other characters,
\* white space, and U+0130
Tokens == {"<svg", "<SVG", "</svg>", "x", " ", "I-dot"}

RECURSIVE SeqsUpTo(_, _)
\* the sequences over S of length <= n
SeqsUpTo(S, n) ==
    IF n = 0 THEN {<<>>}
    ELSE LET shorter == SeqsUpTo(S, n - 1)
         IN shorter \cup {Append(t, c) : t \in shorter, c \in S}

InputTexts == SeqsUpTo(Tokens, MaxLen)

InitText ==
    /\ index = <<>>
    /\ files = EmptyFiles
    /\ Fresh
    /\ given \in InputTexts
    /\ scanned = NotScanned

\* lines 188-205 on the text: frags, the pick among them, and svg_text
Scan ==
    /\ ~scanned.ran
    /\ scanned.stored = <<>>
    /\ scanned' = [scanned EXCEPT
                    !.ran = TRUE,
                    !.frags = Fragments(given),
                    !.best = IF Fragments(given) # <<>>
                             THEN <<MaxByLen(Fragments(given))>> ELSE <<>>,
                    !.svg_text = ExtractSvg(given)]
    /\ UNCHANGED <<given, store, remote, clock, pc, args, runvars, ev,
                   iterations, ops, everKnown, clean, base, rerun>>

\* lines 180 and 225: svg_text of a text that passed the gate becomes the
\* content of the asset file
Save ==
    /\ scanned.ran
    /\ scanned.stored = <<>>
    /\ looks_like_svg(given)
    /\ scanned' = [scanned EXCEPT !.stored = <<scanned.svg_text>>,
                                  !.from = "collect"]
    /\ UNCHANGED <<given, store, remote, clock, pc, args, runvars, ev,
                   iterations, ops, everKnown, clean, base, rerun>>

\* the text is the content of an asset file that was there before
Adopt ==
    /\ ~scanned.ran
    /\ scanned.stored = <<>>
    /\ scanned' = [scanned EXCEPT !.stored = <<given>>, !.from = "file"]
    /\ UNCHANGED <<given, store, remote, clock, pc, args, runvars, ev,
                   iterations, ops, everKnown, clean, base, rerun>>

\* lines 334-362 on the content of the file
RepairFile ==
    /\ scanned.stored # <<>>
    /\ scanned.repairs < MaxRepairs
    /\ scanned' = [scanned EXCEPT
                    !.stored = <<RepairText(scanned.stored[1])>>,
                    !.rewrote = RepairNeeded(scanned.stored[1]),
                    !.repairs = scanned.repairs + 1]
    /\ UNCHANGED <<given, store, remote, clock, pc, args, runvars, ev,
                   iterations, ops, everKnown, clean, base, rerun>>

NextText == Scan \/ Save \/ Adopt \/ RepairFile

SpecText == InitText /\ [][NextText]_vars


\* ============================================================ properties
\* a step other than the passing of time that ended as one of opset
Did(opset) == clock' = clock /\ ev'.op \in opset

\* the ids and the hashes of svg/remote/index.json
IndexedIds == {index[k].id : k \in DOMAIN index}
IndexedHashes == {index[k].hash : k \in DOMAIN index}

\* nothing of the store is written and nothing is accepted
NoWrite ==
    /\ index' = index
    /\ files' = files
    /\ localIndex' = localIndex
    /\ collected' = 0

\* ------------------------------------------------------------------- C1
\* C1 as the specification has it: an id that has been in known_ids, in this
\* run or in any run before it, is never fetched again.
C1_NeverFetchedAgain == [][Did(FetchOps) => ev'.id \notin everKnown]_vars

\* C1, amended: a run never fetches an id that is in its known_ids (which
\* only grows while the run lasts), and never an id that the index on disk
\* holds; an id that a run only rejected is known to that run alone.
C1_KnownInRunOrIndexed ==
    [][/\ Did(FetchOps) => (ev'.id \notin known_ids /\ ev'.id \notin IndexedIds)
       /\ (pc = "collect" /\ pc' = "collect") => known_ids \subseteq known_ids']_vars

\* a run met again an id it had rejected, and skipped it
C1_Witness ==
    /\ pc = "collect"
    /\ ev.op = "skip"
    /\ ev.id \in known_ids
    /\ ev.id \notin IndexedIds

\* ------------------------------------------------------------------- C2
\* C2 as the specification has it: a run that repeats the arguments of the
\* run before it, against the store that run left and a site that serves
\* what it served, writes nothing and accepts nothing.
C2_SecondRunIdle == [][rerun # "no" => NoWrite]_vars

\* C2, amended: the same, for a sequential run that repeats a run which no
\* transport failure touched and which ended on the checked quota.
C2_SecondRunIdleAfterQuota == [][rerun = "quota" => NoWrite]_vars

\* the second run fetched again an id the first had rejected as a duplicate,
\* and rejected it again
C2_Witness ==
    /\ rerun = "quota"
    /\ ev.op = "rej_dup"
    /\ collected = 0

\* ------------------------------------------------------------------- C3
\* C3: every run ends; while it lasts it has accepted at most limit items and
\* gone round the loop at most max_checks times, every round counting one
\* check; the loop goes round only while both quotas are short.
C3_Quotas ==
    /\ (pc = "collect") ~> (pc = "idle")
    /\ [](pc = "collect" =>
            /\ collected <= args.limit
            /\ checked <= args.max_checks
            /\ iterations = checked)
    /\ [][iterations' > iterations =>
            /\ collected < args.limit
            /\ checked < args.max_checks
            /\ checked' = checked + 1]_vars

\* the loop has ended on the checked quota with the limit not reached
C3_Witness ==
    /\ pc = "collect"
    /\ iterations = args.max_checks
    /\ checked = args.max_checks
    /\ collected < args.limit

\* ------------------------------------------------------------------- C4
\* C4: when the working content of a fetched id hashes to a hash the index
\* holds (from before the run or accepted in it), the id is rejected as a
\* duplicate: no file, no index, no counter changes, the run goes on, and
\* the id is in known_ids.
C4_DuplicateRejected ==
    [][(Did(FetchOps) /\ ev'.h # NoHash /\ ev'.h \in IndexedHashes) =>
            /\ ev'.op = "rej_dup"
            /\ files' = files
            /\ index' = index
            /\ localIndex' = localIndex
            /\ collected' = collected
            /\ pc' = "collect"
            /\ known_ids' = known_ids \cup {ev'.id}]_vars

\* an id was rejected whose content another id's entry already has
C4_Witness ==
    /\ ev.op = "rej_dup"
    /\ ev.id \in known_ids
    /\ ev.id \notin IndexedIds
    /\ \E k \in DOMAIN index : index[k].hash = ev.h /\ index[k].id # ev.id

\* ------------------------------------------------------------------- C5
\* C5 as the specification has it: whatever goes wrong with a fetched id,
\* the run counts the id as checked and goes on.
C5_NoStepAborts ==
    [][Did(FetchOps) => (pc' = "collect" /\ checked' = checked + 1)]_vars

\* ------------------------------------------------------------------- C6
\* C6 as the specification has it: a run started with --no-local-sync leaves
\* the curated index as it was.
C6_Suppressed ==
    [][(pc = "collect" /\ args.no_local_sync) => localIndex' = localIndex]_vars

\* ------------------------------------------------------------------- C7
\* every entry with a hash whose file is there has the digest of the file
HashConsistent ==
    \A k \in DOMAIN index :
        (index[k].hash # NoHash /\ index[k].filename \in DOMAIN files) =>
            index[k].hash = <<"sha256", files[index[k].filename]>>

Narrowed(items, fs) ==
    LET there(e) == [e.filename EXCEPT !.dir = ""] \in DOMAIN fs
        kept == SelectSeq(items, there)
    IN [k \in 1..Len(kept) |->
            [kept[k] EXCEPT !.filename = [kept[k].filename EXCEPT !.dir = ""]]]

\* the entries of items whose base-named file is not in fs
Missing(items, fs) ==
    {k \in DOMAIN items : [items[k].filename EXCEPT !.dir = ""] \notin DOMAIN fs}

\* C8: a normalize that returns leaves, of an index of M entries of which K
\* name a missing file, exactly the M-K others, in their order, each with a
\* base-name-only filename; no asset file is touched.
C8_Normalize ==
    [][Did({"normalize"}) =>
            /\ Len(index') = Len(index) - Cardinality(Missing(index, files))
            /\ index' = Narrowed(index, files)
            /\ \A k \in DOMAIN index' : index'[k].filename.dir = ""
            /\ files' = files]_vars

\* a normalize pruned an entry and kept another, whose name it narrowed
C8_Witness ==
    /\ ev.op = "normalize"
    /\ ev.id >= 1
    /\ Len(index) >= 1
    /\ index[1] = [LegacyEntry EXCEPT !.filename = Name(1, 0)]

\* ------------------------------------------------------------------- C9
\* C9 as the specification has it: --sync-local writes as the curated index
\* the entries of the index whose file exists, in order, each with every
\* field it has in the index and only the filename narrowed.
C9_SyncKeepsFields ==
    [][Did({"sync_local"}) => localIndex' = Narrowed(index, files)]_vars

\* ------------------------------------------------------------------ C10
RecollectOps ==
    {"recollect", "recollect_missing", "recollect_error", "recollect_status",
     "recollect_nofrag", "recollect_crash_write", "recollect_crash_index"}

\* entry b is entry a but for filename, hash and repaired_at
SameButRefreshed(a, b) ==
    [b EXCEPT !.filename = a.filename, !.hash = a.hash,
              !.repaired_at = a.repaired_at] = a

\* C10: --recollect-id leaves the index as long as it was and in the same
\* order; only the entry with the id can differ, and only in filename, hash
\* and repaired_at; the curated index is not touched; and when the fetch
\* raises, answers a non-200 or has no fragment (or no entry has the id),
\* neither the index nor any asset file changes.
C10_RecollectFrame ==
    [][Did(RecollectOps) =>
            /\ Len(index') = Len(index)
            /\ \A k \in DOMAIN index :
                \/ index'[k] = index[k]
                \/ /\ index[k].id = ev'.id
                   /\ SameButRefreshed(index[k], index'[k])
            /\ localIndex' = localIndex
            /\ ev'.op \in {"recollect_missing", "recollect_error",
                           "recollect_status", "recollect_nofrag"}
                  => (index' = index /\ files' = files)]_vars

\* the first of two entries was refreshed and is still the first
C10_Witness ==
    /\ ev.op = "recollect"
    /\ Len(index) = 2
    /\ index[1].id = ev.id
    /\ index[1].repaired_at = clock
    /\ index[2].id # ev.id

\* ------------------------------------------------------------------ C11
\* the markers, in either casing, as they stand in the text itself
IsOpen(tok) == tok \in {"<svg", "<SVG"}
IsClose(tok) == tok \in {"</svg>", "</SVG>"}

\* the first position from off on whose token satisfies Is, 0 when none does
FirstAt(t, Is(_), off) ==
    IF \E i \in off..Len(t) : Is(t[i])
    THEN CHOOSE i \in off..Len(t) : Is(t[i]) /\ \A j \in off..(i - 1) : ~Is(t[j])
    ELSE 0

RECURSIVE PairedFrags(_, _)
\* every opening marker from off on paired with the nearest closing marker
\* after it, resuming after that one: the slices of t between the two
PairedFrags(t, off) ==
    LET s == FirstAt(t, IsOpen, off) IN
    IF s = 0 THEN <<>>
    ELSE LET e == FirstAt(t, IsClose, s) IN
         IF e = 0 THEN <<>>
         ELSE <<SubSeq(t, s, e)>> \o PairedFrags(t, e + 1)

\* the first of the longest among fs (fs not empty)
FirstLongest(fs) ==
    fs[CHOOSE k \in DOMAIN fs :
            /\ \A j \in DOMAIN fs : TextLen(fs[j]) <= TextLen(fs[k])
            /\ \A j \in 1..(k - 1) : TextLen(fs[j]) < TextLen(fs[k])]

\* C11 as the specification has it: for any text the fragments found are the
\* slices of the text from each opening marker to the nearest closing marker
\* after it, resuming after that marker; the result is the first of the
\* longest of them, and none when there is no pair.
C11_Extraction ==
    scanned.ran =>
        /\ scanned.frags = PairedFrags(given, 1)
        /\ scanned.best = IF PairedFrags(given, 1) = <<>> THEN <<>>
                          ELSE <<FirstLongest(PairedFrags(given, 1))>>

\* C11 for the texts without U+0130 (not the claim: what is left of it)
C11_ExtractionSameLength ==
    (scanned.ran /\ \A i \in DOMAIN given : given[i] # "I-dot") =>
        /\ scanned.frags = PairedFrags(given, 1)
        /\ scanned.best = IF PairedFrags(given, 1) = <<>> THEN <<>>
                          ELSE <<FirstLongest(PairedFrags(given, 1))>>

\* ------------------------------------------------------------------ C12
\* the keywords matched in the working content w, or else in the text t
Evidence(w, t) ==
    IF find_license_keywords(w) # <<>>
    THEN find_license_keywords(w) ELSE find_license_keywords(t)

\* a 200 that passes the gate, is no duplicate and has license evidence
Eligible(r) ==
    /\ r.status = 200
    /\ \E k \in DOMAIN r.text : IsOpen(r.text[k])
    /\ <<"sha256", ExtractSvg(r.text)>> \notin IndexedHashes
    /\ Evidence(ExtractSvg(r.text), r.text) # <<>>

\* one entry for the id is appended to the index, with the digest of the
\* working content w and the licenses; its file holds w; no other file is
\* written or changed; collected goes up by one
AcceptedAs(i, w, licenses) ==
    /\ Len(index') = Len(index) + 1
    /\ SubSeq(index', 1, Len(index)) = index
    /\ LET e == index'[Len(index')]
       IN /\ e.id = i
          /\ e.hash = <<"sha256", w>>
          /\ e.licenses = licenses
          /\ e.filename \in DOMAIN files'
          /\ files'[e.filename] = w
          /\ DOMAIN files' \subseteq DOMAIN files \cup {e.filename}
          /\ \A p \in DOMAIN files :
                p \in DOMAIN files' /\ (p # e.filename => files'[p] = files[p])
    /\ collected' = collected + 1

\* C12: when the answer for a fetched id is a 200 that passes the gate, is no
\* duplicate and has license evidence, and the two writes succeed, one asset
\* holding the working content (what the extraction returns for the body) is
\* stored and one entry is appended, its licenses the keywords matched in
\* the working content, or else those matched in the whole body, in the
\* order of the vocabulary.
C12_Acceptance ==
    [][\A i \in Ids :
        (/\ Did({"rej_status", "rej_notsvg", "rej_dup", "rej_nolicense", "accept"})
         /\ ev'.id = i
         /\ Eligible(remote'[i]))
        => AcceptedAs(i, ExtractSvg(remote'[i].text),
                      Evidence(ExtractSvg(remote'[i].text), remote'[i].text))]_vars

\* a run accepted the raw body of one id, with two keywords in vocabulary
\* order, and the longer fragment of another, licensed by the text around it
C12_Witness ==
    /\ ev.op = "accept"
    /\ Len(index) = 2
    /\ \E k \in {1, 2} :
        /\ remote[index[k].id].text = DocNoClose
        /\ files[index[k].filename] = DocNoClose
        /\ index[k].licenses = <<"gpl", "lgpl">>
    /\ \E k \in {1, 2} :
        /\ remote[index[k].id].text = DocFallback
        /\ files[index[k].filename] = <<"<svg", "x", "</svg>">>
        /\ index[k].licenses = <<"mit">>

\* ------------------------------------------------------------------ C13
\* the loop went round once more, for id i
Iterated(i) == clock' = clock /\ iterations' = iterations + 1 /\ ev'.id = i

\* the outcome for id i was not acceptance: the id was known, or the GET
\* raised, or the answer was not one to accept
NotAccepted(i) ==
    \/ i \in known_ids
    \/ ev'.op = "fetch_error"
    \/ ~Eligible(remote'[i])

\* C13: an iteration whose outcome is not acceptance (known id, transport
\* failure, non-200, no opening marker, duplicate, no license evidence)
\* writes no file, changes neither index, leaves collected and adds one to
\* checked; collected changes only in an iteration that accepts, by one.
C13_RejectionFrame ==
    [][\A i \in Ids :
        /\ (Iterated(i) /\ NotAccepted(i)) =>
                /\ files' = files
                /\ index' = index
                /\ localIndex' = localIndex
                /\ collected' = collected
                /\ checked' = checked + 1
        /\ (pc = "collect" /\ pc' = "collect" /\ collected' # collected
                /\ ev'.id = i) =>
                /\ collected' = collected + 1
                /\ ~NotAccepted(i)
                /\ Len(index') = Len(index) + 1]_vars

\* the second id of a run answered 404 after the first was turned down too
C13_Witness ==
    /\ pc = "collect"
    /\ ev.op = "rej_status"
    /\ remote[ev.id].status = NOT_FOUND
    /\ checked = 2
    /\ collected = 0
    /\ index = <<>>
    /\ files = EmptyFiles

\* ------------------------------------------------------------------ C14
\* C14: within a run no GET is issued while the delay for an earlier GET of
\* that run is still owed, and every iteration that issued a GET and goes
\* round again has slept, whatever its outcome was.
C14_Pacing ==
    [][(pc = "collect" /\ Did(FetchOps)) =>
            /\ ~ev.owed
            /\ pc' = "collect" => ~ev'.owed]_vars

\* the second GET of a run (no id was known, so both iterations fetched) has
\* been answered and slept for
C14_Witness ==
    /\ pc = "collect"
    /\ ev.op \in FetchOps
    /\ ~ev.owed
    /\ known_ids = {}
    /\ iterations = 2

\* ------------------------------------------------------------------ C15
\* the outcomes of a GET after which the id is in known_ids
RememberedOps == {"rej_dup", "rej_nolicense", "accept"}

\* C15: within one run, sequential or random, no GET is issued for an id
\* that run has already issued a GET for.
C15_NoRefetch ==
    [][(pc = "collect" /\ Did(FetchOps)) => ev'.id \notin ev.got]_vars

\* C15, as the code has it: a sequential run never issues a second GET for
\* an id; in either mode a GET is never for an id in known_ids, an id turned
\* down as duplicate or unlicensed or accepted is in known_ids from then on,
\* and known_ids loses no id while the run lasts, so such an id is not
\* fetched again in that run.  (A random run can draw again an id whose GET
\* raised, was not a 200 or had no opening marker.)
C15_NoRefetchOfRemembered ==
    [][(pc = "collect" /\ clock' = clock) =>
            /\ Did(FetchOps) =>
                    /\ ~args.random_mode => ev'.id \notin ev.got
                    /\ ev'.id \notin known_ids
            /\ (Did(RememberedOps) /\ pc' = "collect") =>
                    ev'.id \in known_ids'
            /\ pc' = "collect" => known_ids \subseteq known_ids']_vars

\* a sequential run has fetched two ids, neither of which it remembers
C15_Witness ==
    /\ pc = "collect"
    /\ ~args.random_mode
    /\ ev.got = {1, 2}
    /\ ev.op \in FetchOps \ RememberedOps
    /\ known_ids = {}

\* ------------------------------------------------------------------ C16
\* entry b is entry a, whatever was done to its filename, hash and
\* repaired_at
StaysAs(a, b) ==
    /\ b.id = a.id
    /\ b.url = a.url
    /\ b.licenses = a.licenses
    /\ b.collected_at = a.collected_at
    /\ b.origin = a.origin

\* every entry of old is in new at its place, new entries come after them
Keeps(old, new) ==
    /\ Len(new) >= Len(old)
    /\ \A k \in DOMAIN old : StaysAs(old[k], new[k])

\* the entries of items whose base-named file is in fs, in their order
Present(items, fs) ==
    LET there(e) == [e.filename EXCEPT !.dir = ""] \in DOMAIN fs
    IN SelectSeq(items, there)

\* C16: no step of a collection run, of repair, of recollect or of resync
\* takes an entry out of index.json or moves it: the entries the file held
\* are all still there, at their places.  normalize takes out exactly the
\* entries whose file is absent and keeps the others in their order.
C16_RemovedOnlyByNormalize ==
    [][clock' = clock =>
            /\ ev'.op # "normalize" => Keeps(index, index')
            /\ ev'.op = "normalize" =>
                    /\ Len(index') = Len(Present(index, files))
                    /\ Keeps(Present(index, files), index')]_vars

\* a run appended an entry behind the one the index held, which carries the
\* stamp of a repair
C16_Witness ==
    /\ ev.op = "accept"
    /\ Len(index) = 2
    /\ index[1].id # index[2].id
    /\ index[1].repaired_at # NoTime

\* ------------------------------------------------------------------ C17
\* the steps that persist working content: save_svg in collect (line 225)
\* and the write of --recollect-id (lines 415-426)
PersistOps == {"accept", "abort_save_index", "recollect", "recollect_crash_index"}

\* C17: a step that persists working content leaves every asset file that
\* existed with the content it had.
C17_NoOverwrite ==
    [][Did(PersistOps) =>
            \A p \in DOMAIN files : p \in DOMAIN files' /\ files'[p] = files[p]]_vars

\* no asset file carries the present second in its name
NoNameOfNow == \A p \in DOMAIN files : p.ts # clock

\* C17 where the second is new: a step that persists working content while
\* no asset file is named after the present second leaves every asset file
\* that existed with the content it had.
C17_NoOverwriteInNewSecond ==
    [][(Did(PersistOps) /\ NoNameOfNow) =>
            \A p \in DOMAIN files : p \in DOMAIN files' /\ files'[p] = files[p]]_vars

\* C17 for save_svg alone
C17_SaveSvgNoOverwrite ==
    [][Did({"accept", "abort_save_index"}) =>
            \A p \in DOMAIN files : p \in DOMAIN files' /\ files'[p] = files[p]]_vars

\* ------------------------------------------------------------------ C18
\* a 200 that passes the gate and has no keyword, neither in the working
\* content nor in the whole body
NoEvidence(r) ==
    /\ r.status = 200
    /\ \E k \in DOMAIN r.text : IsOpen(r.text[k])
    /\ Evidence(ExtractSvg(r.text), r.text) = <<>>

\* C18: a collection run that gets, for an id, content without license
\* evidence in the working content and in the whole body writes no file and
\* changes neither index, and the id is in known_ids afterwards; every entry
\* a collection run appends has a non-empty licenses list.
C18_DefaultDeny ==
    [][\A i \in Ids :
        /\ (/\ Did(FetchOps \ {"fetch_error"})
            /\ ev'.id = i
            /\ NoEvidence(remote'[i]))
           => /\ files' = files
              /\ index' = index
              /\ localIndex' = localIndex
              /\ pc' = "collect"
              /\ i \in known_ids'
        /\ (pc = "collect" /\ index' # index)
           => /\ Len(index') = Len(index) + 1
              /\ index'[Len(index')].licenses # <<>>]_vars

\* a run turned down, for want of a keyword, content that was no duplicate,
\* after it had accepted another id
C18_Witness ==
    /\ pc = "collect"
    /\ ev.op = "rej_nolicense"
    /\ NoEvidence(remote[ev.id])
    /\ ev.id \in known_ids
    /\ Len(index) = 1
    /\ index[1].id # ev.id
    /\ index[1].licenses # <<>>
    /\ collected = 1

\* ------------------------------------------------------------------ C19
\* C19 as the specification has it: the second of two repairs in a row
\* rewrites nothing, and no repair rewrites a file that collect wrote from
\* an extracted fragment.
C19_RepairIdempotent ==
    /\ scanned.repairs = 2 => ~scanned.rewrote
    /\ (scanned.from = "collect" /\ scanned.frags # <<>> /\ scanned.repairs >= 1)
            => ~scanned.rewrote

\* C19 for the texts without U+0130 (not the claim: what is left of it)
C19_RepairIdempotentSameLength ==
    (\A i \in DOMAIN given : given[i] # "I-dot") =>
        /\ scanned.repairs = 2 => ~scanned.rewrote
        /\ (scanned.from = "collect" /\ scanned.frags # <<>>
                /\ scanned.repairs >= 1) => ~scanned.rewrote

\* ------------------------------------------------------------------ C20
\* C20: from the empty store, whatever collection runs are made and however
\* the fetches end, index.json never holds two entries with the same id nor
\* two with the same hash.
C20_NoDuplicates ==
    \A j, k \in DOMAIN index :
        j # k => index[j].id # index[k].id /\ index[j].hash # index[k].hash

\* a second run has appended an entry to the one a first run had left, in
\* its second iteration
C20_Witness ==
    /\ pc = "collect"
    /\ ops = 2
    /\ Len(index) = 2
    /\ Len(idx) = 2
    /\ ev.op = "accept"
    /\ iterations = 2
    /\ checked = 2
    /\ collected = 1

====
